---- MODULE Spec2Model ----
(***************************************************************************)
(* Model of the Alertacall data monitor: the three monitor scripts         *)
(* (monitors/pipeline_health.py, monitors/checkin.py,                      *)
(* monitors/daily_summary.py).  Each script is one batch run: connect,     *)
(* query and classify every configured pipeline, build a message, post it  *)
(* to a webhook, write local files, exit with a code.                      *)
(*                                                                         *)
(* Prefixes: ph_ = pipeline_health.py, ci_ = checkin.py,                   *)
(* ds_ = daily_summary.py (the three scripts define the same names).       *)
(***************************************************************************)
EXTENDS Integers, Sequences, FiniteSets, TLC

VARIABLES
    script,          \* which script this run executes
    period,          \* checkin.py --time argument ("-" for the other scripts)
    SLACK_WEBHOOK,   \* pipeline_health.py: TRUE iff SLACK_WEBHOOK_URL is set
    pc,              \* position of main()
    conn,            \* "none" | "open" | "closed": connection and cursor
    all_results,     \* all_results / pipeline_results of main()
    issues,          \* pipeline_health.main: the WARNING/CRITICAL results
    operator_count,  \* checkin.main: <<>> for None, <<n>> for a count
    daily_stats,     \* daily_summary.main: <<>> before, <<stats>> after
    card,            \* the message built by create_google_chat_card
    posts,           \* webhook POST attempts of the run, with their outcome
    alert_file,      \* LOG_DIR/pipeline_alerts.txt, a sequence of entries
    success_file,    \* LOG_DIR/pipeline_health_last_success.txt, <<>> or <<t>>
    exit_code,       \* process exit code, -1 while running
    log,             \* logger.warning / logger.error records of the run
    raised,          \* history: exceptions raised in the run, with their site
    queried,         \* history: pipelines whose health query was executed
    call,            \* function-level specification: the arguments
    ret              \* function-level specification: <<>> or <<result>>

vars == <<script, period, SLACK_WEBHOOK, pc, conn, all_results, issues,
          operator_count, daily_stats, card, posts, alert_file, success_file,
          exit_code, log, raised, queried, call, ret>>

runVars == <<script, period, SLACK_WEBHOOK, pc, conn, all_results, issues,
             operator_count, daily_stats, card, posts, alert_file,
             success_file, exit_code, log, raised, queried>>

----------------------------------------------------------------------------
(* Bounds of the exploration *)

\* largest hours_stale a health query returns in the function-level runs
MaxHours == 50

\* longest result list given to the aggregation in the function-level runs
MaxResults == 5

----------------------------------------------------------------------------
(* Program constants *)

NO_DATA_HOURS == 999

EXPECTED_OPERATORS == 237

OPERATORS_SLIGHTLY_OFF == 230

HTTP_OK == 200

Scripts == {"pipeline_health", "checkin", "daily_summary"}

Statuses == {"OK", "WARNING", "CRITICAL"}

\* PIPELINE_CONFIGS.items() iterates in insertion order; the three tables
\* hold the same five keys in the same order
PIPELINE_NAMES ==
    <<"FactCalls", "FactFirstCalls", "DimAgentActivity",
      "messaging_result", "pellonia_tickets">>

ph_PIPELINE_CONFIGS ==
    [FactCalls        |-> [critical_hours |-> 24, warning_hours |-> 12,
                           min_daily_records |-> 1000, check_after_hour |-> 12],
     FactFirstCalls   |-> [critical_hours |-> 24, warning_hours |-> 12,
                           min_daily_records |-> 500, check_after_hour |-> 12],
     DimAgentActivity |-> [critical_hours |-> 48, warning_hours |-> 24,
                           min_daily_records |-> 0, check_after_hour |-> 99],
     messaging_result |-> [critical_hours |-> 48, warning_hours |-> 24,
                           min_daily_records |-> 0, check_after_hour |-> 99],
     pellonia_tickets |-> [critical_hours |-> 48, warning_hours |-> 24,
                           min_daily_records |-> 0, check_after_hour |-> 99]]

ci_PIPELINE_CONFIGS ==
    [FactCalls        |-> [critical_hours |-> 24],
     FactFirstCalls   |-> [critical_hours |-> 24],
     DimAgentActivity |-> [critical_hours |-> 48],
     messaging_result |-> [critical_hours |-> 48],
     pellonia_tickets |-> [critical_hours |-> 48]]

ds_PIPELINE_CONFIGS ==
    [FactCalls        |-> [critical_hours |-> 24],
     FactFirstCalls   |-> [critical_hours |-> 24],
     DimAgentActivity |-> [critical_hours |-> 48],
     messaging_result |-> [critical_hours |-> 48],
     pellonia_tickets |-> [critical_hours |-> 48]]

\* CHECKIN_CONFIGS[period]['critical_pipelines']
CHECKIN_CONFIGS ==
    [morning      |-> <<"FactCalls", "FactFirstCalls", "DimAgentActivity">>,
     first_shift  |-> <<"FactCalls", "DimAgentActivity">>,
     second_shift |-> <<"FactCalls", "DimAgentActivity">>]

Periods == {"morning", "first_shift", "second_shift"}

PIPELINE_CONFIGS(s) ==
    CASE s = "pipeline_health" -> ph_PIPELINE_CONFIGS
      [] s = "checkin"         -> ci_PIPELINE_CONFIGS
      [] s = "daily_summary"   -> ds_PIPELINE_CONFIGS

----------------------------------------------------------------------------
(* The health query's answer.  cursor.fetchone() gives None (NoRow), a row *)
(* whose last_record is NULL (NullRow: the aggregate over no rows), or a   *)
(* row with a last record.                                                 *)

NoRow == [fetched |-> FALSE]

NullRow == [fetched |-> TRUE, last_record |-> "None"]

DataRow(h, t, y) ==
    [fetched |-> TRUE, last_record |-> "ts", hours_stale |-> h,
     records_today |-> t, records_yesterday |-> y]

\* if not result or result['last_record'] is None
no_data(row) == (~row.fetched) \/ row.last_record = "None"

----------------------------------------------------------------------------
(* pipeline_health.check_pipeline_health *)

ph_staleness_ge(hours_stale, config) ==
    IF hours_stale >= config.critical_hours THEN "CRITICAL"
    ELSE IF hours_stale >= config.warning_hours THEN "WARNING"
    ELSE "OK"

\* lines 125-130
ph_staleness(hours_stale, config) ==
    IF hours_stale > config.critical_hours THEN "CRITICAL"
    ELSE IF hours_stale > config.warning_hours THEN "WARNING"
    ELSE "OK"

\* lines 133-138
ph_volume_status(current_hour, records_today, config) ==
    IF current_hour >= config.check_after_hour
       /\ records_today < config.min_daily_records
    THEN "LOW_VOLUME" ELSE "NORMAL"

ph_escalate_one_level(status, volume_status) ==
    IF volume_status # "LOW_VOLUME" THEN status
    ELSE IF status = "OK" THEN "WARNING"
    ELSE "CRITICAL"

ph_escalate_never(status, volume_status) == status

\* lines 138-140
ph_escalate(status, volume_status) ==
    IF volume_status = "LOW_VOLUME" /\ status = "OK" THEN "WARNING" ELSE status

\* lines 111-119
ph_no_data_result(pipeline_name) ==
    [pipeline |-> pipeline_name, status |-> "CRITICAL",
     message |-> [text |-> "No data found in last 7 days", args |-> <<>>],
     hours_stale |-> NO_DATA_HOURS, records_today |-> 0,
     last_record |-> "None"]

\* lines 92-150
ph_check_pipeline_health(pipeline_name, config, row, current_hour) ==
    IF no_data(row) THEN ph_no_data_result(pipeline_name)
    ELSE LET volume == ph_volume_status(current_hour, row.records_today, config)
         IN  [pipeline |-> pipeline_name,
              status |-> ph_escalate(ph_staleness(row.hours_stale, config), volume),
              hours_stale |-> row.hours_stale,
              records_today |-> row.records_today,
              last_record |-> row.last_record,
              volume_status |-> volume,
              message |-> [text |-> "{}h since update, {} records today",
                           args |-> <<row.hours_stale, row.records_today>>]]

----------------------------------------------------------------------------
(* checkin.check_pipeline_health *)

emoji_of(status) ==
    CASE status = "CRITICAL" -> "cross"
      [] status = "WARNING"  -> "warn"
      [] status = "OK"       -> "tick"

ci_staleness_warning_first(hours_stale, config) ==
    IF 2 * hours_stale > config.critical_hours THEN "WARNING"
    ELSE IF hours_stale > config.critical_hours THEN "CRITICAL"
    ELSE "OK"

ci_staleness_floor(hours_stale, config) ==
    IF hours_stale > config.critical_hours THEN "CRITICAL"
    ELSE IF hours_stale >= (config.critical_hours \div 2) THEN "WARNING"
    ELSE "OK"

\* lines 158-166; critical_hours / 2 is true division, so
\* hours_stale > critical_hours / 2 iff 2 * hours_stale > critical_hours
ci_staleness(hours_stale, config) ==
    IF hours_stale > config.critical_hours THEN "CRITICAL"
    ELSE IF 2 * hours_stale > config.critical_hours THEN "WARNING"
    ELSE "OK"

\* lines 144-152
ci_no_data_result(pipeline_name) ==
    [pipeline |-> pipeline_name, status |-> "CRITICAL",
     message |-> [text |-> "No data found in last 7 days", args |-> <<>>],
     hours_stale |-> NO_DATA_HOURS, records_today |-> 0,
     emoji |-> "cross"]

\* lines 126-175
ci_check_pipeline_health(pipeline_name, config, row) ==
    IF no_data(row) THEN ci_no_data_result(pipeline_name)
    ELSE LET status == ci_staleness(row.hours_stale, config)
         IN  [pipeline |-> pipeline_name,
              status |-> status,
              hours_stale |-> row.hours_stale,
              records_today |-> row.records_today,
              emoji |-> emoji_of(status),
              message |-> [text |-> "{}h old, {} records today",
                           args |-> <<row.hours_stale, row.records_today>>]]

----------------------------------------------------------------------------
(* daily_summary.check_pipeline_health *)

\* lines 129-137
ds_staleness(hours_stale, config) ==
    IF hours_stale > config.critical_hours THEN "CRITICAL"
    ELSE IF 2 * hours_stale > config.critical_hours THEN "WARNING"
    ELSE "OK"

ds_trend_no_zero_case(records_today, records_yesterday) ==
    IF records_today > records_yesterday THEN "up"
    ELSE IF records_today < records_yesterday THEN "down"
    ELSE "flat"

\* lines 140-147
ds_trend(records_today, records_yesterday) ==
    IF records_yesterday = 0 THEN "flat"
    ELSE IF records_today > records_yesterday THEN "up"
    ELSE IF records_today < records_yesterday THEN "down"
    ELSE "flat"

ds_no_data_result_stale0(pipeline_name) ==
    [pipeline |-> pipeline_name, status |-> "CRITICAL", emoji |-> "cross",
     hours_stale |-> 0, records_today |-> 0, records_yesterday |-> 0,
     trend |-> "down", last_record |-> "None"]

\* lines 111-122 (description is a constant of the pipeline, left out)
ds_no_data_result(pipeline_name) ==
    [pipeline |-> pipeline_name, status |-> "CRITICAL", emoji |-> "cross",
     hours_stale |-> NO_DATA_HOURS, records_today |-> 0,
     records_yesterday |-> 0, trend |-> "down", last_record |-> "None"]

\* lines 91-160
ds_check_pipeline_health(pipeline_name, config, row) ==
    IF no_data(row) THEN ds_no_data_result(pipeline_name)
    ELSE LET status == ds_staleness(row.hours_stale, config)
         IN  [pipeline |-> pipeline_name,
              status |-> status,
              emoji |-> emoji_of(status),
              hours_stale |-> row.hours_stale,
              records_today |-> row.records_today,
              records_yesterday |-> row.records_yesterday,
              trend |-> ds_trend(row.records_today, row.records_yesterday),
              last_record |-> row.last_record]

\* the script's check_pipeline_health
check_pipeline_health(s, pipeline_name, config, row, current_hour) ==
    CASE s = "pipeline_health" ->
             ph_check_pipeline_health(pipeline_name, config, row, current_hour)
      [] s = "checkin" -> ci_check_pipeline_health(pipeline_name, config, row)
      [] s = "daily_summary" -> ds_check_pipeline_health(pipeline_name, config, row)

----------------------------------------------------------------------------
(* Aggregation and message building *)

count_status(results, status) ==
    Cardinality({i \in 1..Len(results) : results[i].status = status})

overall_last_wins(critical_count, warning_count) ==
    IF warning_count > 0 THEN "WARNING"
    ELSE IF critical_count > 0 THEN "CRITICAL"
    ELSE "OK"

\* checkin.py lines 201-209, daily_summary.py lines 208-216: the overall
\* status line of the card, named here by its severity
overall_status(critical_count, warning_count) ==
    IF critical_count > 0 THEN "CRITICAL"
    ELSE IF warning_count > 0 THEN "WARNING"
    ELSE "OK"

ci_operator_text_strict(operator_count_) ==
    IF operator_count_ = <<>> THEN "absent"
    ELSE IF operator_count_[1] = EXPECTED_OPERATORS THEN "expected"
    ELSE IF operator_count_[1] > OPERATORS_SLIGHTLY_OFF THEN "slightly off"
    ELSE "CRITICAL"

\* checkin.py lines 217-224; operator_count is <<>> for None
ci_operator_text(operator_count_) ==
    IF operator_count_ = <<>> THEN "absent"
    ELSE IF operator_count_[1] = EXPECTED_OPERATORS THEN "expected"
    ELSE IF operator_count_[1] >= OPERATORS_SLIGHTLY_OFF THEN "slightly off"
    ELSE "CRITICAL"

\* checkin.py lines 192-247
ci_create_google_chat_card(pipeline_results, operator_count_) ==
    [overall_status |-> overall_status(count_status(pipeline_results, "CRITICAL"),
                                       count_status(pipeline_results, "WARNING")),
     pipeline_text |-> [i \in 1..Len(pipeline_results) |->
                          [emoji |-> pipeline_results[i].emoji,
                           pipeline |-> pipeline_results[i].pipeline,
                           message |-> pipeline_results[i].message]],
     operator_text |-> ci_operator_text(operator_count_),
     operators |-> operator_count_,
     ok_count |-> count_status(pipeline_results, "OK"),
     warning_count |-> count_status(pipeline_results, "WARNING"),
     critical_count |-> count_status(pipeline_results, "CRITICAL")]

\* daily_summary.py lines 226-230: daily_stats.get(key, 'N/A')
ds_stats_get(stats, key) ==
    IF key \in DOMAIN stats THEN [present |-> TRUE, value |-> stats[key]]
    ELSE [present |-> FALSE, value |-> 0]

\* daily_summary.py lines 199-255
ds_create_google_chat_card(pipeline_results, stats) ==
    [overall_status |-> overall_status(count_status(pipeline_results, "CRITICAL"),
                                       count_status(pipeline_results, "WARNING")),
     pipeline_text |-> [i \in 1..Len(pipeline_results) |->
                          [emoji |-> pipeline_results[i].emoji,
                           pipeline |-> pipeline_results[i].pipeline,
                           hours_stale |-> pipeline_results[i].hours_stale,
                           records_today |-> pipeline_results[i].records_today,
                           trend |-> pipeline_results[i].trend]],
     stats_text |-> IF DOMAIN stats = {} THEN <<>>
                    ELSE <<ds_stats_get(stats, "calls_today"),
                           ds_stats_get(stats, "active_operators"),
                           ds_stats_get(stats, "first_calls_today")>>,
     ok_count |-> count_status(pipeline_results, "OK"),
     warning_count |-> count_status(pipeline_results, "WARNING"),
     critical_count |-> count_status(pipeline_results, "CRITICAL")]

\* pipeline_health.py lines 159-175: the alert text of send_alerts
ph_alert_text(issues_) ==
    [critical_count |-> count_status(issues_, "CRITICAL"),
     warning_count |-> count_status(issues_, "WARNING"),
     lines |-> [i \in 1..Len(issues_) |->
                  [emoji |-> IF issues_[i].status = "CRITICAL"
                             THEN "cross" ELSE "warn",
                   pipeline |-> issues_[i].pipeline,
                   message |-> issues_[i].message]]]

----------------------------------------------------------------------------
(* Exceptions and the except clauses of main() *)

SystemExit(code) == [cls |-> "SystemExit", code |-> code]

MySQLError == [cls |-> "MySQLError", code |-> 0]

OtherError == [cls |-> "Exception", code |-> 0]

\* Python's class hierarchy: mysql.connector.Error is an Exception,
\* SystemExit is a BaseException and not an Exception
isinstance(exc, class) ==
    \/ exc.cls = class
    \/ class = "Exception" /\ exc.cls = "MySQLError"
    \/ class = "BaseException"

except_generic_first(exc) ==
    IF isinstance(exc, "Exception") THEN 3
    ELSE IF isinstance(exc, "MySQLError") THEN 2
    ELSE exc.code

except_base_exception(exc) ==
    IF isinstance(exc, "MySQLError") THEN 2
    ELSE IF isinstance(exc, "BaseException") THEN 3
    ELSE exc.code

\* pipeline_health.py lines 263-268: the exit code of the process when exc
\* leaves the try block (an uncaught SystemExit ends the process with its code)
ph_main_except(exc) ==
    IF isinstance(exc, "MySQLError") THEN 2
    ELSE IF isinstance(exc, "Exception") THEN 3
    ELSE exc.code

\* checkin.py lines 321-326
ci_main_except(exc) ==
    IF isinstance(exc, "MySQLError") THEN 2
    ELSE IF isinstance(exc, "Exception") THEN 3
    ELSE exc.code

\* daily_summary.py lines 319-324
ds_main_except(exc) ==
    IF isinstance(exc, "MySQLError") THEN 2
    ELSE IF isinstance(exc, "Exception") THEN 3
    ELSE exc.code

main_except(s, exc) ==
    CASE s = "pipeline_health" -> ph_main_except(exc)
      [] s = "checkin"         -> ci_main_except(exc)
      [] s = "daily_summary"   -> ds_main_except(exc)

is_issue_critical_only(result) == result.status = "CRITICAL"

\* pipeline_health.py line 238
ph_is_issue(result) == result.status \in {"CRITICAL", "WARNING"}

ci_exit_status_any_issue(pipeline_results) ==
    IF count_status(pipeline_results, "CRITICAL") > 0 THEN 1
    ELSE IF count_status(pipeline_results, "WARNING") > 0 THEN 1
    ELSE 0

\* checkin.py lines 305-316: the argument of sys.exit
ci_exit_status(pipeline_results) ==
    IF count_status(pipeline_results, "CRITICAL") > 0 THEN 1
    ELSE IF count_status(pipeline_results, "WARNING") > 0 THEN 0
    ELSE 0

\* daily_summary.py line 317: the argument of sys.exit
ds_exit_status(pipeline_results) == 0

----------------------------------------------------------------------------
(* Function-level specification: one call of check_pipeline_health or of   *)
(* create_google_chat_card on arguments drawn from bounded sets.           *)

RecordSamples == {0, 499, 500, 999, 1000}

YesterdaySamples == {0, 500, 1000}

\* configurations beside the tables': an odd critical_hours, a volume
\* minimum that is never checked, a zero minimum that is checked
SampleConfigs(s) ==
    IF s = "pipeline_health"
    THEN {[critical_hours |-> 25, warning_hours |-> 12,
           min_daily_records |-> 1000, check_after_hour |-> 99],
          [critical_hours |-> 24, warning_hours |-> 12,
           min_daily_records |-> 0, check_after_hour |-> 12]}
    ELSE {[critical_hours |-> 25]}

CallConfigs(s, name) ==
    {PIPELINE_CONFIGS(s)[name]}
        \cup (IF name = PIPELINE_NAMES[1] THEN SampleConfigs(s) ELSE {})

CallRows(s) ==
    {NoRow, NullRow}
        \cup {DataRow(h, t, y) :
                h \in 0..MaxHours, t \in RecordSamples,
                y \in IF s = "daily_summary" THEN YesterdaySamples ELSE {0}}

CallHours(s) == IF s = "pipeline_health" THEN 0..23 ELSE {0}

\* a row of the pipeline that classifies as the given status
RowOfStatus(config, status) ==
    CASE status = "OK"       -> DataRow(0, 1, 1)
      [] status = "WARNING"  -> DataRow(config.critical_hours, 1, 1)
      [] status = "CRITICAL" -> DataRow(config.critical_hours + 1, 1, 1)

NameAt(i) == PIPELINE_NAMES[((i - 1) % Len(PIPELINE_NAMES)) + 1]

ResultsOf(s, statuses) ==
    [i \in 1..Len(statuses) |->
        check_pipeline_health(s, NameAt(i), PIPELINE_CONFIGS(s)[NameAt(i)],
                              RowOfStatus(PIPELINE_CONFIGS(s)[NameAt(i)],
                                          statuses[i]),
                              0)]

StatusLists == UNION {[1..n -> Statuses] : n \in 0..MaxResults}

IdleCall == [kind |-> "none"]

IdleRun ==
    /\ script = "-"
    /\ period = "-"
    /\ SLACK_WEBHOOK = FALSE
    /\ pc = "idle"
    /\ conn = "none"
    /\ all_results = <<>>
    /\ issues = <<>>
    /\ operator_count = <<>>
    /\ daily_stats = <<>>
    /\ card = <<>>
    /\ posts = <<>>
    /\ alert_file = <<>>
    /\ success_file = <<>>
    /\ exit_code = -1
    /\ log = <<>>
    /\ raised = {}
    /\ queried = <<>>

----------------------------------------------------------------------------
(* Run-level specification: one run of one script.                         *)

\* the pipelines main() loops over: PIPELINE_CONFIGS.items() in
\* pipeline_health and daily_summary, the period's critical_pipelines in checkin
Pipelines_whole_table(s, p) == PIPELINE_NAMES

Pipelines(s, p) == IF s = "checkin" THEN CHECKIN_CONFIGS[p] ELSE PIPELINE_NAMES

last_iteration_first(k, names) == k >= 1

\* the for loop ends after the last name; what follows the loop is not
\* part of its body
last_iteration(k, names) == k = Len(names)

\* what the health query of a pipeline may answer in a run: no data, and
\* rows at the boundaries of the pipeline's thresholds
RunRows(s, config) ==
    {NoRow, NullRow} \cup
    (CASE s = "pipeline_health" ->
              {DataRow(config.warning_hours, config.min_daily_records, 0),
               DataRow(config.warning_hours, 0, 0),
               DataRow(config.critical_hours, config.min_daily_records, 0),
               DataRow(config.critical_hours + 1, 0, 0)}
       [] s = "checkin" ->
              {DataRow(config.critical_hours \div 2, 0, 0),
               DataRow(config.critical_hours, 10, 0),
               DataRow(config.critical_hours + 1, 0, 0)}
       [] s = "daily_summary" ->
              {DataRow(config.critical_hours \div 2, 2, 1),
               DataRow(config.critical_hours, 1, 2),
               DataRow(config.critical_hours + 1, 0, 0)})

\* datetime.now().hour at a health check
RunHours(s) == IF s = "pipeline_health" THEN {11, 12} ELSE {0}

\* the active-operator counts the operator query may answer
OperatorCounts == {0, 229, 230, 236, 237, 238}

\* the statuses the webhook may answer
HttpStatuses == {HTTP_OK, 500}

\* the files a previous run of pipeline_health may have left
PriorFiles ==
    {[alert_file |-> <<>>, success_file |-> <<>>],
     [alert_file |-> <<[time |-> "t0",
                        text |-> ph_alert_text(<<ph_no_data_result("FactCalls")>>)]>>,
      success_file |-> <<"t0">>]}

Init ==
    /\ script \in Scripts
    /\ period \in (IF script = "checkin" THEN Periods ELSE {"-"})
    /\ SLACK_WEBHOOK \in (IF script = "pipeline_health" THEN BOOLEAN ELSE {FALSE})
    /\ pc = "connect"
    /\ conn = "none"
    /\ all_results = <<>>
    /\ issues = <<>>
    /\ operator_count = <<>>
    /\ daily_stats = <<>>
    /\ card = <<>>
    /\ posts = <<>>
    /\ \E files \in (IF script = "pipeline_health" THEN PriorFiles
                     ELSE {[alert_file |-> <<>>, success_file |-> <<>>]}) :
          /\ alert_file = files.alert_file
          /\ success_file = files.success_file
    /\ exit_code = -1
    /\ log = <<>>
    /\ raised = {}
    /\ queried = <<>>
    /\ call = IdleCall
    /\ ret = <<>>

\* exc leaves the try block of main(): the except clauses log it and exit
\* (lines 263-268 / 321-326 / 319-324); SystemExit passes through them.
\* log_ is the log at the time exc is raised
LeaveWith(site, exc, log_) ==
    LET code == main_except(script, exc)
    IN  /\ pc' = "exited"
        /\ exit_code' = code
        /\ raised' = IF exc.cls = "SystemExit" THEN raised
                     ELSE raised \cup {[site |-> site, cls |-> exc.cls,
                                        caught |-> "main"]}
        /\ log' = IF exc.cls = "SystemExit" THEN log_
                  ELSE IF code = 2 THEN Append(log_, [level |-> "ERROR",
                                                      msg |-> "Database error"])
                  ELSE Append(log_, [level |-> "ERROR",
                                     msg |-> "Unexpected error"])

Leave(site, exc) == LeaveWith(site, exc, log)

Errors == {MySQLError, OtherError}

\* conn = mysql.connector.connect(**DB_CONFIG); cursor = conn.cursor(...)
Connect ==
    /\ pc = "connect"
    /\ \/ /\ conn' = "open"
          /\ pc' = "check"
          /\ UNCHANGED <<exit_code, raised, log>>
       \/ /\ \E exc \in Errors : Leave("connect", exc)
          /\ UNCHANGED conn
    /\ UNCHANGED <<script, period, SLACK_WEBHOOK, all_results, issues,
                   operator_count, daily_stats, card, posts, alert_file,
                   success_file, queried, call, ret>>

\* where main() continues after the loop over the pipelines
AfterChecks(s) ==
    CASE s = "pipeline_health" -> "summary"
      [] s = "checkin"         -> "operator"
      [] s = "daily_summary"   -> "stats"

\* one iteration of the loop over the pipelines: the health query and its
\* classification (pipeline_health 233-239, checkin 288-292, daily_summary 288-291)
CheckPipeline ==
    /\ pc = "check"
    /\ LET names == Pipelines(script, period)
           k == Len(all_results) + 1
           pipeline_name == names[k]
           config == PIPELINE_CONFIGS(script)[pipeline_name]
       IN  /\ queried' = Append(queried, pipeline_name)
           /\ \/ \E row \in RunRows(script, config), hour \in RunHours(script) :
                    LET result == check_pipeline_health(script, pipeline_name,
                                                        config, row, hour)
                    IN  /\ all_results' = Append(all_results, result)
                        /\ issues' = IF script = "pipeline_health"
                                        /\ ph_is_issue(result)
                                     THEN Append(issues, result) ELSE issues
                        /\ pc' = IF last_iteration(k, names) THEN AfterChecks(script)
                                 ELSE "check"
                        /\ UNCHANGED <<exit_code, raised, log>>
              \/ /\ \E exc \in Errors : Leave("health_query", exc)
                 /\ UNCHANGED <<all_results, issues>>
    /\ UNCHANGED <<script, period, SLACK_WEBHOOK, conn, operator_count,
                   daily_stats, card, posts, alert_file, success_file,
                   call, ret>>

\* pipeline_health.main lines 241-253: log the summary, branch on issues
ph_LogSummary ==
    /\ pc = "summary"
    /\ \/ /\ pc' = IF issues # <<>> THEN "send_alerts" ELSE "marker"
          /\ UNCHANGED <<exit_code, raised, log>>
       \/ Leave("summary", OtherError)
    /\ UNCHANGED <<script, period, SLACK_WEBHOOK, conn, all_results, issues,
                   operator_count, daily_stats, card, posts, alert_file,
                   success_file, queried, call, ret>>

\* what requests.post may do: answer with a status, or raise (a
\* requests exception, an Exception)
PostOutcomes ==
    {[raised |-> FALSE, status_code |-> status] : status \in HttpStatuses}
    \cup {[raised |-> TRUE, status_code |-> 0]}

ph_post_slack_uncaught(configured, outcome) ==
    IF ~configured
    THEN [posts |-> <<>>, escaped |-> FALSE, caught |-> FALSE, log |-> <<>>]
    ELSE [posts |-> <<[to |-> "slack", raised |-> outcome.raised,
                       status_code |-> outcome.status_code]>>,
          escaped |-> outcome.raised, caught |-> FALSE, log |-> <<>>]

\* pipeline_health.send_alerts lines 180-187: the Slack post.  posts: the
\* requests.post calls made; escaped: an exception leaves send_alerts;
\* caught: it was caught by 'except Exception'; log: the warning and error
\* records written (the info record of a 200 is not kept)
ph_post_slack(configured, outcome) ==
    IF ~configured
    THEN [posts |-> <<>>, escaped |-> FALSE, caught |-> FALSE, log |-> <<>>]
    ELSE LET post == [to |-> "slack", raised |-> outcome.raised,
                      status_code |-> outcome.status_code]
         IN  IF outcome.raised
             THEN IF isinstance(OtherError, "Exception")
                  THEN [posts |-> <<post>>, escaped |-> FALSE, caught |-> TRUE,
                        log |-> <<[level |-> "ERROR",
                                   msg |-> "Failed to send Slack alert"]>>]
                  ELSE [posts |-> <<post>>, escaped |-> TRUE, caught |-> FALSE,
                        log |-> <<>>]
             ELSE [posts |-> <<post>>, escaped |-> FALSE, caught |-> FALSE,
                   log |-> <<>>]

\* pipeline_health.send_alerts lines 155-187: format the alert, log it,
\* post it to Slack when a webhook is configured
ph_SendAlerts ==
    /\ pc = "send_alerts"
    /\ \E outcome \in (IF SLACK_WEBHOOK THEN PostOutcomes
                       ELSE {[raised |-> FALSE, status_code |-> 0]}) :
          LET sent == ph_post_slack(SLACK_WEBHOOK, outcome)
              logged == Append(log, [level |-> "WARNING", msg |-> "alert text"])
          IN  /\ posts' = posts \o sent.posts
              /\ IF sent.escaped
                 THEN LeaveWith("post", OtherError, logged)
                 ELSE /\ pc' = "alert_file"
                      /\ log' = logged \o sent.log
                      /\ raised' = IF sent.caught
                                   THEN raised \cup
                                        {[site |-> "post", cls |-> "Exception",
                                          caught |-> "send_alerts"]}
                                   ELSE raised
                      /\ UNCHANGED exit_code
    /\ UNCHANGED <<script, period, SLACK_WEBHOOK, conn, all_results, issues,
                   operator_count, daily_stats, card, alert_file,
                   success_file, queried, call, ret>>

ph_write_alert_truncating(file, entry) == <<entry>>

\* pipeline_health.send_alerts lines 190-194: open(alert_file, 'a') and the
\* three writes of one entry (timestamp, alert text, separator)
ph_write_alert(file, entry) == Append(file, entry)

\* pipeline_health.send_alerts lines 189-194 and main lines 248-251: append
\* the alert to the alert file, log the number of issues, sys.exit(1)
ph_AppendAlertFile ==
    /\ pc = "alert_file"
    /\ \/ /\ alert_file' = ph_write_alert(alert_file,
                                           [time |-> "t1",
                                            text |-> ph_alert_text(issues)])
          /\ pc' = "exited"
          /\ exit_code' = main_except(script, SystemExit(1))
          /\ log' = Append(log, [level |-> "WARNING",
                                 msg |-> "Found pipeline issue(s)"])
          /\ UNCHANGED raised
       \/ /\ Leave("alert_file", OtherError)
          /\ UNCHANGED alert_file
    /\ UNCHANGED <<script, period, SLACK_WEBHOOK, conn, all_results, issues,
                   operator_count, daily_stats, card, posts, success_file,
                   queried, call, ret>>

\* pipeline_health.main lines 255-258: overwrite the success marker
ph_WriteSuccessMarker ==
    /\ pc = "marker"
    /\ \/ /\ success_file' = <<"t1">>
          /\ pc' = "close"
          /\ UNCHANGED <<exit_code, raised, log>>
       \/ /\ Leave("success_file", OtherError)
          /\ UNCHANGED success_file
    /\ UNCHANGED <<script, period, SLACK_WEBHOOK, conn, all_results, issues,
                   operator_count, daily_stats, card, posts, alert_file,
                   queried, call, ret>>

\* pipeline_health.main lines 260-261: close cursor and connection; main()
\* then returns and the process ends with code 0
ph_Close ==
    /\ pc = "close"
    /\ \/ /\ conn' = "closed"
          /\ pc' = "exited"
          /\ exit_code' = 0
          /\ UNCHANGED <<raised, log>>
       \/ /\ \E exc \in Errors : Leave("close", exc)
          /\ UNCHANGED conn
    /\ UNCHANGED <<script, period, SLACK_WEBHOOK, all_results, issues,
                   operator_count, daily_stats, card, posts, alert_file,
                   success_file, queried, call, ret>>

\* checkin.check_operator_count lines 177-190: the count of the row, 0 when
\* there is no row, 0 when the query raises (any Exception is caught here)
ci_check_operator_count(answer) ==
    IF answer.raised THEN 0
    ELSE IF answer.fetched THEN answer.operator_count ELSE 0

OperatorAnswers ==
    {[raised |-> FALSE, fetched |-> TRUE, operator_count |-> n, cls |-> "-"] :
        n \in OperatorCounts}
    \cup {[raised |-> FALSE, fetched |-> FALSE, operator_count |-> 0, cls |-> "-"]}
    \cup {[raised |-> TRUE, fetched |-> FALSE, operator_count |-> 0,
           cls |-> exc.cls] : exc \in Errors}

\* checkin.main lines 294-298: the operator count, for the morning check-in
ci_CheckOperatorCount ==
    /\ pc = "operator"
    /\ \/ /\ period # "morning"
          /\ UNCHANGED <<operator_count, raised, log, queried>>
       \/ /\ period = "morning"
          /\ queried' = Append(queried, "operator_count")
          /\ \E answer \in OperatorAnswers :
                /\ operator_count' = <<ci_check_operator_count(answer)>>
                /\ IF answer.raised
                   THEN /\ raised' = raised \cup
                              {[site |-> "operator_query", cls |-> answer.cls,
                                caught |-> "check_operator_count"]}
                        /\ log' = Append(log, [level |-> "ERROR",
                                     msg |-> "Error checking operator count"])
                   ELSE UNCHANGED <<raised, log>>
    /\ pc' = "card"
    /\ UNCHANGED <<script, period, SLACK_WEBHOOK, conn, all_results, issues,
                   daily_stats, card, posts, alert_file, success_file,
                   exit_code, call, ret>>

STATS_KEYS == <<"calls_today", "active_operators", "first_calls_today">>

\* daily_summary.get_daily_stats lines 162-197: three queries in turn, each
\* storing its count; an exception at query fail_at (0: none) ends the
\* function with the counts stored so far
ds_get_daily_stats(answers, fail_at) ==
    LET stored == IF fail_at = 0 THEN 3 ELSE fail_at - 1
    IN  [key \in {STATS_KEYS[i] : i \in 1..stored} |->
            LET i == CHOOSE j \in 1..3 : STATS_KEYS[j] = key
            IN  IF answers[i].fetched THEN answers[i].count ELSE 0]

\* daily_summary.get_daily_stats lines 168-192: the queries executed, the
\* failing one included
ds_stats_queries(fail_at) ==
    SubSeq(STATS_KEYS, 1, IF fail_at = 0 THEN 3 ELSE fail_at)

StatsAnswers ==
    {<<[fetched |-> TRUE, count |-> 1500], [fetched |-> TRUE, count |-> 237],
       [fetched |-> TRUE, count |-> 12]>>,
     <<[fetched |-> FALSE, count |-> 0], [fetched |-> TRUE, count |-> 0],
       [fetched |-> TRUE, count |-> 0]>>}

\* daily_summary.main line 294
ds_GetDailyStats ==
    /\ pc = "stats"
    /\ \E answers \in StatsAnswers, fail_at \in 0..3 :
          /\ daily_stats' = <<ds_get_daily_stats(answers, fail_at)>>
          /\ queried' = queried \o ds_stats_queries(fail_at)
          /\ IF fail_at = 0 THEN UNCHANGED <<raised, log>>
             ELSE /\ \E exc \in Errors :
                        raised' = raised \cup
                            {[site |-> "stats_query", cls |-> exc.cls,
                              caught |-> "get_daily_stats"]}
                  /\ log' = Append(log, [level |-> "ERROR",
                                         msg |-> "Error getting daily stats"])
    /\ pc' = "card"
    /\ UNCHANGED <<script, period, SLACK_WEBHOOK, conn, all_results, issues,
                   operator_count, card, posts, alert_file, success_file,
                   exit_code, call, ret>>

\* checkin.main line 301, daily_summary.main line 297
BuildCard ==
    /\ pc = "card"
    /\ \/ /\ card' = <<IF script = "checkin"
                       THEN ci_create_google_chat_card(all_results, operator_count)
                       ELSE ds_create_google_chat_card(all_results, daily_stats[1])>>
          /\ pc' = "send"
          /\ UNCHANGED <<exit_code, raised, log>>
       \/ /\ Leave("card", OtherError)
          /\ UNCHANGED card
    /\ UNCHANGED <<script, period, SLACK_WEBHOOK, conn, all_results, issues,
                   operator_count, daily_stats, posts, alert_file,
                   success_file, queried, call, ret>>

\* send_google_chat_alert (checkin.py 249-266, daily_summary.py 257-274):
\* what it returns for the outcome of requests.post
send_google_chat_alert(outcome) ==
    IF outcome.raised THEN FALSE
    ELSE outcome.status_code = HTTP_OK

send_google_chat_alert_retrying(outcome) ==
    LET post == [to |-> "google_chat", raised |-> outcome.raised,
                 status_code |-> outcome.status_code,
                 returned |-> send_google_chat_alert(outcome)]
    IN  [posts |-> IF post.returned THEN <<post>> ELSE <<post, post>>,
         escaped |-> FALSE, caught |-> outcome.raised, log |-> <<>>]

\* send_google_chat_alert (checkin.py 249-266, daily_summary.py 257-274)
\* with its effects.  posts: the requests.post calls made, with the value
\* returned; escaped: an exception leaves the function; caught: it was
\* caught by 'except Exception'; log: the error records written
send_google_chat_alert_effects(outcome) ==
    LET post == [to |-> "google_chat", raised |-> outcome.raised,
                 status_code |-> outcome.status_code,
                 returned |-> send_google_chat_alert(outcome)]
    IN  IF outcome.raised
        THEN IF isinstance(OtherError, "Exception")
             THEN [posts |-> <<post>>, escaped |-> FALSE, caught |-> TRUE,
                   log |-> <<[level |-> "ERROR",
                              msg |-> "Error sending to Google Chat"]>>]
             ELSE [posts |-> <<post>>, escaped |-> TRUE, caught |-> FALSE,
                   log |-> <<>>]
        ELSE [posts |-> <<post>>, escaped |-> FALSE, caught |-> FALSE,
              log |-> IF outcome.status_code = HTTP_OK THEN <<>>
                      ELSE <<[level |-> "ERROR",
                              msg |-> "Failed to send to Google Chat"]>>]

\* checkin.main line 302, daily_summary.main line 298: one call of
\* send_google_chat_alert; the returned flag is not used by main()
SendGoogleChatAlert ==
    /\ pc = "send"
    /\ \E outcome \in PostOutcomes :
          LET sent == send_google_chat_alert_effects(outcome)
          IN  /\ posts' = posts \o sent.posts
              /\ IF sent.escaped
                 THEN Leave("post", OtherError)
                 ELSE /\ pc' = "finish"
                      /\ log' = log \o sent.log
                      /\ raised' = IF sent.caught
                                   THEN raised \cup
                                        {[site |-> "post", cls |-> "Exception",
                                          caught |-> "send_google_chat_alert"]}
                                   ELSE raised
                      /\ UNCHANGED exit_code
    /\ UNCHANGED <<script, period, SLACK_WEBHOOK, conn, all_results, issues,
                   operator_count, daily_stats, card, alert_file,
                   success_file, queried, call, ret>>

\* checkin.main lines 304-316: log the counts and sys.exit; the close of
\* lines 318-319 is never reached
ci_Finish ==
    /\ pc = "finish"
    /\ script = "checkin"
    /\ pc' = "exited"
    /\ exit_code' = main_except(script, SystemExit(ci_exit_status(all_results)))
    /\ log' = IF ci_create_google_chat_card(all_results, <<>>).overall_status = "OK"
              THEN log
              ELSE Append(log, [level |-> "WARNING", msg |-> "Check-in complete"])
    /\ UNCHANGED <<script, period, SLACK_WEBHOOK, conn, all_results, issues,
                   operator_count, daily_stats, card, posts, alert_file,
                   success_file, raised, queried, call, ret>>

\* daily_summary.main lines 300-317: log the results, close cursor and
\* connection, sys.exit(0)
ds_Finish ==
    /\ pc = "finish"
    /\ script = "daily_summary"
    /\ \/ /\ conn' = "closed"
          /\ pc' = "exited"
          /\ exit_code' = main_except(script, SystemExit(ds_exit_status(all_results)))
          /\ UNCHANGED <<raised, log>>
       \/ /\ \E exc \in Errors : Leave("close", exc)
          /\ UNCHANGED conn
    /\ UNCHANGED <<script, period, SLACK_WEBHOOK, all_results, issues,
                   operator_count, daily_stats, card, posts, alert_file,
                   success_file, queried, call, ret>>

Next ==
    \/ Connect
    \/ CheckPipeline
    \/ ph_LogSummary
    \/ ph_SendAlerts
    \/ ph_AppendAlertFile
    \/ ph_WriteSuccessMarker
    \/ ph_Close
    \/ ci_CheckOperatorCount
    \/ ds_GetDailyStats
    \/ BuildCard
    \/ SendGoogleChatAlert
    \/ ci_Finish
    \/ ds_Finish

Spec == Init /\ [][Next]_vars

----------------------------------------------------------------------------
(* The sender functions, for the function-level specification: the two     *)
(* send_google_chat_alert and the methods of alerts.GoogleChatAlert         *)

gca_post_any_2xx(outcome) ==
    IF outcome.raised
    THEN [returned |-> FALSE, escaped |-> FALSE, printed |-> TRUE, log |-> <<>>]
    ELSE [returned |-> outcome.status_code \in 200..299, escaped |-> FALSE,
          printed |-> FALSE, log |-> <<>>]

\* google_chat_alerts.py lines 141-151 (and 200-210, 216-226, 283-293): the
\* try/except around requests.post that ends each method.  The except
\* clause prints; it writes no log record
gca_post(outcome) ==
    IF outcome.raised
    THEN IF isinstance(OtherError, "Exception")
         THEN [returned |-> FALSE, escaped |-> FALSE, printed |-> TRUE,
               log |-> <<>>]
         ELSE [returned |-> FALSE, escaped |-> TRUE, printed |-> FALSE,
               log |-> <<>>]
    ELSE [returned |-> outcome.status_code = HTTP_OK, escaped |-> FALSE,
          printed |-> FALSE, log |-> <<>>]

\* GoogleChatAlert.send_checkin_card, once the card is built
gca_send_checkin_card(outcome) == gca_post(outcome)

\* GoogleChatAlert.send_critical_alert, once the card is built
gca_send_critical_alert(outcome) == gca_post(outcome)

\* GoogleChatAlert.send_simple_message
gca_send_simple_message(outcome) == gca_post(outcome)

\* GoogleChatAlert.send_daily_summary, once the card is built
gca_send_daily_summary(outcome) == gca_post(outcome)

Senders ==
    {"checkin.send_google_chat_alert", "daily_summary.send_google_chat_alert",
     "send_checkin_card", "send_critical_alert", "send_simple_message",
     "send_daily_summary"}

sender_effects(sender, outcome) ==
    CASE sender = "send_checkin_card" -> gca_send_checkin_card(outcome)
      [] sender = "send_critical_alert" -> gca_send_critical_alert(outcome)
      [] sender = "send_simple_message" -> gca_send_simple_message(outcome)
      [] sender = "send_daily_summary" -> gca_send_daily_summary(outcome)
      [] OTHER ->
           LET sent == send_google_chat_alert_effects(outcome)
           IN  [returned |-> sent.posts[Len(sent.posts)].returned,
                escaped |-> sent.escaped, printed |-> FALSE, log |-> sent.log]

\* the statuses the webhook answers in the function-level runs
SendStatuses == {200, 201, 204, 302, 400, 404, 500, 503}

SendOutcomes ==
    {[raised |-> FALSE, status_code |-> status] : status \in SendStatuses}
    \cup {[raised |-> TRUE, status_code |-> 0]}

InitFn ==
    /\ IdleRun
    /\ ret = <<>>
    /\ \/ \E s \in Scripts, i \in 1..Len(PIPELINE_NAMES) :
            \E config \in CallConfigs(s, PIPELINE_NAMES[i]),
               row \in CallRows(s), hour \in CallHours(s) :
                call = [kind |-> "classify", script |-> s,
                        pipeline_name |-> PIPELINE_NAMES[i], config |-> config,
                        row |-> row, current_hour |-> hour]
       \/ \E s \in {"checkin", "daily_summary"}, statuses \in StatusLists :
            call = [kind |-> "aggregate", script |-> s,
                    pipeline_results |-> ResultsOf(s, statuses)]
       \/ \E sender \in Senders, outcome \in SendOutcomes :
            call = [kind |-> "send", sender |-> sender, outcome |-> outcome]

\* result = check_pipeline_health(cursor, pipeline_name, config)
Classify ==
    /\ call.kind = "classify"
    /\ ret = <<>>
    /\ ret' = <<check_pipeline_health(call.script, call.pipeline_name,
                                      call.config, call.row, call.current_hour)>>
    /\ UNCHANGED <<runVars, call>>

\* card = create_google_chat_card(...)
Aggregate ==
    /\ call.kind = "aggregate"
    /\ ret = <<>>
    /\ ret' = <<IF call.script = "checkin"
                THEN ci_create_google_chat_card(call.pipeline_results, <<>>)
                ELSE ds_create_google_chat_card(call.pipeline_results, <<>>)>>
    /\ UNCHANGED <<runVars, call>>

\* one call of a sender function on a webhook that behaves as call.outcome
Send ==
    /\ call.kind = "send"
    /\ ret = <<>>
    /\ ret' = <<sender_effects(call.sender, call.outcome)>>
    /\ UNCHANGED <<runVars, call>>

NextFn == Classify \/ Aggregate \/ Send

SpecFn == InitFn /\ [][NextFn]_vars

----------------------------------------------------------------------------
(* Properties of the classifier and of the aggregation (SpecFn) *)

Classified == call.kind = "classify" /\ ret # <<>>

HasLastRecord == Classified /\ ~no_data(call.row)

\* twice the warning threshold of the script: the configured warning_hours
\* in pipeline_health, critical_hours / 2 in checkin and daily_summary
TwiceWarningHours ==
    IF call.script = "pipeline_health" THEN 2 * call.config.warning_hours
    ELSE call.config.critical_hours

\* volume is low: only pipeline_health configures a volume check
VolumeLow ==
    /\ call.script = "pipeline_health"
    /\ call.current_hour >= call.config.check_after_hour
    /\ call.row.records_today < call.config.min_daily_records

\* C1: in each script, a pipeline with a last record whose hours_stale is
\* strictly greater than critical_hours is classified CRITICAL, whatever
\* records_today and the current hour are.
C1_StaleBeyondCriticalIsCritical ==
    (HasLastRecord /\ call.row.hours_stale > call.config.critical_hours)
        => ret[1].status = "CRITICAL"

C1_Witness ==
    /\ HasLastRecord
    /\ call.script = "checkin"
    /\ call.row.hours_stale = call.config.critical_hours + 1
    /\ ret[1].status = "CRITICAL"

\* C2: a pipeline with a last record and warning threshold < hours_stale <=
\* critical_hours is classified WARNING (hours_stale = critical_hours is
\* WARNING, not CRITICAL).
C2_BetweenThresholdsIsWarning ==
    (/\ HasLastRecord
     /\ 2 * call.row.hours_stale > TwiceWarningHours
     /\ call.row.hours_stale <= call.config.critical_hours)
        => ret[1].status = "WARNING"

C2_Witness ==
    /\ HasLastRecord
    /\ call.script = "pipeline_health"
    /\ call.config.warning_hours = 12
    /\ call.row.hours_stale = call.config.critical_hours
    /\ call.row.hours_stale = 24
    /\ ret[1].status = "WARNING"

\* C3: a pipeline with a last record, hours_stale <= the warning threshold
\* (equality included) and volume not low is classified OK in all scripts.
C3_FreshAndNotLowIsOk ==
    (/\ HasLastRecord
     /\ 2 * call.row.hours_stale <= TwiceWarningHours
     /\ ~VolumeLow)
        => ret[1].status = "OK"

C3_Witness ==
    /\ HasLastRecord
    /\ call.script = "checkin"
    /\ 2 * call.row.hours_stale = call.config.critical_hours
    /\ ret[1].status = "OK"

\* C4: when the health query returns no row or a null last_record, the
\* result is CRITICAL with hours_stale = 999 and records_today = 0, whatever
\* the thresholds, the minimum daily records and the current hour.
C4_NoDataIsCritical999 ==
    (Classified /\ no_data(call.row))
        => /\ ret[1].status = "CRITICAL"
           /\ ret[1].hours_stale = 999
           /\ ret[1].records_today = 0

C4_Witness ==
    /\ Classified
    /\ call.row = NullRow
    /\ call.script = "daily_summary"
    /\ ret[1].hours_stale = 999

\* C5: in pipeline_health, a pipeline whose staleness alone is OK, with
\* records_today < min_daily_records at a current hour >= check_after_hour,
\* is WARNING with volume_status LOW_VOLUME; with check_after_hour = 99 or
\* min_daily_records = 0 the escalation fires at no hour 0..23.
C5_LowVolumeEscalates ==
    (/\ HasLastRecord
     /\ call.script = "pipeline_health"
     /\ call.row.hours_stale <= call.config.warning_hours)
        => /\ VolumeLow
              => /\ ret[1].status = "WARNING"
                 /\ ret[1].volume_status = "LOW_VOLUME"
           /\ (call.config.check_after_hour = 99
               \/ call.config.min_daily_records = 0)
              => /\ ret[1].status = "OK"
                 /\ ret[1].volume_status = "NORMAL"

C5_Witness ==
    /\ HasLastRecord
    /\ call.script = "pipeline_health"
    /\ call.row.hours_stale <= call.config.warning_hours
    /\ call.current_hour = 12
    /\ call.row.records_today = 999
    /\ call.config.min_daily_records = 1000
    /\ ret[1].status = "WARNING"
    /\ ret[1].volume_status = "LOW_VOLUME"

Aggregated == call.kind = "aggregate" /\ ret # <<>>

HasStatus(results, status) ==
    \E i \in 1..Len(results) : results[i].status = status

Swap(seq, i, j) ==
    [k \in 1..Len(seq) |->
        IF k = i THEN seq[j] ELSE IF k = j THEN seq[i] ELSE seq[k]]

CardOf(s, results) ==
    IF s = "checkin" THEN ci_create_google_chat_card(results, <<>>)
    ELSE ds_create_google_chat_card(results, <<>>)

\* C6: the overall severity of the message is CRITICAL if some result is
\* CRITICAL, otherwise WARNING if some result is WARNING, otherwise OK
\* (the empty list is OK), and exchanging any two results leaves it unchanged.
C6_OverallSeverity ==
    Aggregated =>
        /\ ret[1].overall_status =
             (IF HasStatus(call.pipeline_results, "CRITICAL") THEN "CRITICAL"
              ELSE IF HasStatus(call.pipeline_results, "WARNING") THEN "WARNING"
              ELSE "OK")
        /\ \A i, j \in 1..Len(call.pipeline_results) :
             CardOf(call.script, Swap(call.pipeline_results, i, j)).overall_status
                = ret[1].overall_status

C6_Witness ==
    /\ Aggregated
    /\ Len(call.pipeline_results) = 5
    /\ call.pipeline_results[1].status = "WARNING"
    /\ call.pipeline_results[2].status = "OK"
    /\ call.pipeline_results[5].status = "CRITICAL"
    /\ ret[1].overall_status = "CRITICAL"

----------------------------------------------------------------------------
(* Properties of a run (Spec) *)

Exited == pc = "exited"

\* an exception reached the except clauses of main()
ErrorInMain == \E r \in raised : r.caught = "main"

SomeIssue ==
    \E i \in 1..Len(all_results) : all_results[i].status \in {"WARNING", "CRITICAL"}

AllOk == \A i \in 1..Len(all_results) : all_results[i].status = "OK"

\* C7: a run of pipeline_health.main in which no database or unexpected
\* error occurs exits with code 1 iff some pipeline result is WARNING or
\* CRITICAL, and with code 0 iff every pipeline result is OK.
C7_HourlyExitCode ==
    (Exited /\ script = "pipeline_health" /\ ~ErrorInMain)
        => /\ exit_code = 1 <=> SomeIssue
           /\ exit_code = 0 <=> AllOk
           /\ Len(all_results) = Len(PIPELINE_NAMES)

C7_Witness ==
    /\ Exited
    /\ script = "pipeline_health"
    /\ raised = {}
    /\ exit_code = 1
    /\ ~HasStatus(all_results, "CRITICAL")
    /\ all_results[1].volume_status = "LOW_VOLUME"
    /\ all_results[1].hours_stale = 12

DatabaseErrors == {r \in raised : r.cls = "MySQLError"}

\* the places whose database errors reach the except clauses of main()
MainDbSites == {"connect", "health_query", "close"}

\* C9 as stated: a database error at any point of the run, the operator
\* count query and the daily statistics queries included, makes the process
\* exit with code 2 (taken here for the runs in which nothing but database
\* errors is raised).
C9_AnyDatabaseErrorExits2 ==
    (Exited /\ DatabaseErrors # {} /\ raised = DatabaseErrors) => exit_code = 2

\* C9 amended: a database error of the connection attempt, of a pipeline
\* health query or of the closing of cursor and connection makes the
\* process exit with code 2, and nothing else does; a database error of the
\* operator count query or of a daily statistics query is caught where it
\* is raised and leaves the exit code what it is without it.
C9_DatabaseErrorInMainExits2 ==
    Exited =>
        /\ exit_code = 2 <=> (\E r \in DatabaseErrors : r.site \in MainDbSites)
        /\ \A r \in DatabaseErrors :
              \/ r.site \in MainDbSites /\ r.caught = "main"
              \/ /\ r.site \in {"operator_query", "stats_query"}
                 /\ r.caught \in {"check_operator_count", "get_daily_stats"}

C9_Witness ==
    /\ Exited
    /\ exit_code = 2
    /\ Len(all_results) = 2
    /\ \E r \in DatabaseErrors : r.site = "health_query"

OtherErrors == {r \in raised : r.cls = "Exception"}

\* C10 as stated: an exception that is no database error, raised anywhere
\* between connecting and exiting, makes the process exit with code 3, and
\* the run's own sys.exit(0 or 1) is never turned into exit code 3.
C10_AnyOtherErrorExits3 ==
    Exited =>
        /\ OtherErrors # {} => exit_code = 3
        /\ raised = {} => exit_code \in {0, 1}

\* C10 amended: an exception that is no database error and is raised outside
\* the functions that catch their own exceptions (the webhook senders,
\* check_operator_count, get_daily_stats) makes the process exit with code 3,
\* and nothing else does: the run's own sys.exit(0 or 1) is never turned
\* into exit code 3.
C10_OtherErrorInMainExits3 ==
    Exited =>
        /\ exit_code = 3 <=> (\E r \in OtherErrors : r.caught = "main")
        /\ ~ErrorInMain => exit_code \in {0, 1}
        /\ \A r \in OtherErrors :
              r.caught # "main" =>
                  r.site \in {"post", "operator_query", "stats_query"}

C10_Witness ==
    /\ Exited
    /\ exit_code = 3
    /\ script = "pipeline_health"
    /\ \E r \in OtherErrors : r.site = "alert_file" /\ r.caught = "main"
    /\ \E r \in OtherErrors : r.site = "post"

----------------------------------------------------------------------------
(* Properties of the delivery (Spec) *)

\* a POST of the run that did not end in HTTP 200
FailedPosts ==
    {i \in 1..Len(posts) : posts[i].raised \/ posts[i].status_code # 200}

\* the entries the run itself appended to the alert file
NewAlertEntries == SelectSeq(alert_file, LAMBDA e : e.time = "t1")

\* the exit code of a run that no exception ends, from the results alone
ExitCodeOfResults ==
    CASE script = "pipeline_health" -> IF SomeIssue THEN 1 ELSE 0
      [] script = "checkin" ->
             IF HasStatus(all_results, "CRITICAL") THEN 1 ELSE 0
      [] script = "daily_summary" -> 0

\* C11: the exit code of a run is the same whether the webhook POST
\* succeeds, answers a non-200 status or raises: the step that posts never
\* exits and never sets the exit code, the run goes on to its next step (in
\* pipeline_health the append to the alert file, which still happens after a
\* failed Slack post), and the exit code of a run that no exception ends is
\* that of its results, whatever the POST did.
C11_DeliveryFailureNotFatal ==
    [][/\ posts' # posts
          => /\ exit_code' = exit_code
             /\ pc' = IF script = "pipeline_health" THEN "alert_file"
                      ELSE "finish"
       /\ (pc' = "exited" /\ ~ErrorInMain')
          => /\ exit_code' = ExitCodeOfResults'
             /\ (script = "pipeline_health" /\ FailedPosts' # {})
                => Len(NewAlertEntries') = 1]_vars

C11_Witness ==
    /\ Exited
    /\ script = "pipeline_health"
    /\ Len(posts) = 1
    /\ posts[1].raised
    /\ exit_code = 1
    /\ Len(NewAlertEntries) = 1

Sent == call.kind = "send" /\ ret # <<>>

\* C12: every sender returns true exactly when the POST completed with HTTP
\* status 200, returns false for every other status and for an exception
\* raised by the POST, and lets no exception escape to its caller
C12_SenderReturnsTrueOnlyOn200 ==
    Sent =>
        /\ ~ret[1].escaped
        /\ ret[1].returned
             <=> (~call.outcome.raised /\ call.outcome.status_code = 200)

C12_Witness ==
    /\ Sent
    /\ call.sender = "send_simple_message"
    /\ ~call.outcome.raised
    /\ call.outcome.status_code = 204
    /\ ~ret[1].returned


\* the failures of database queries raised so far in the run
QueryFailures ==
    {r \in raised : r.site \in {"health_query", "operator_query", "stats_query"}}

\* C13: there is no retry: a run attempts at most one webhook POST whatever
\* its outcome, no database query is issued twice, and a health query
\* that fails ends the run
C13_NoRetry ==
    /\ Len(posts) <= 1
    /\ \A i, j \in 1..Len(queried) : queried[i] = queried[j] => i = j
    /\ (\E r \in QueryFailures : r.site = "health_query") => pc = "exited"

C13_Witness ==
    /\ Exited
    /\ script = "checkin"
    /\ Len(posts) = 1
    /\ ~posts[1].raised /\ posts[1].status_code = 500
    /\ \E r \in QueryFailures : r.site = "operator_query"


\* the health queries of the run, in the order issued
HealthQueried ==
    SelectSeq(queried, LAMBDA q : \E i \in 1..Len(PIPELINE_NAMES) : PIPELINE_NAMES[i] = q)

\* the pipelines classified in the run, in the order classified
ClassifiedNames == [i \in 1..Len(all_results) |-> all_results[i].pipeline]

\* the run has come to its send step
ReachedSend == pc \in {"send_alerts", "send"} \/ posts # <<>>

\* C14 as stated: in a run that reaches the send step every pipeline of the
\* configuration table has been health-queried and classified exactly once,
\* in table order
C14_WholeTableCheckedOnce ==
    ReachedSend => /\ HealthQueried = PIPELINE_NAMES
                   /\ ClassifiedNames = PIPELINE_NAMES

\* C14 amended: in a run that reaches the send step, pipeline_health and
\* daily_summary have health-queried and classified every pipeline of
\* PIPELINE_CONFIGS exactly once in table order, and checkin has done so for
\* exactly the critical_pipelines of its period, in list order
C14_ConfiguredPipelinesCheckedOnce ==
    ReachedSend =>
        LET expected == IF script = "checkin" THEN CHECKIN_CONFIGS[period]
                        ELSE PIPELINE_NAMES
        IN  /\ HealthQueried = expected
            /\ ClassifiedNames = expected

C14_Witness ==
    /\ pc = "send"
    /\ script = "checkin"
    /\ period = "first_shift"
    /\ HealthQueried = <<"FactCalls", "DimAgentActivity">>
    /\ ClassifiedNames = <<"FactCalls", "DimAgentActivity">>


\* the pipelines the run is to check
ConfiguredPipelines ==
    IF script = "checkin" THEN CHECKIN_CONFIGS[period] ELSE PIPELINE_NAMES

\* the run has written the alert file or the success marker
WrittenThisRun == NewAlertEntries # <<>> \/ success_file = <<"t1">>

\* C15: the steps of a run are ordered classify-all, aggregate, build
\* message, send, local file write, exit: a webhook POST is attempted only
\* after every pipeline of the run is classified (and the card is built) and
\* before any file write, a file is written only after the classification
\* and, for the alert file, after the send step, and a run in which a health
\* query raised sends nothing and writes neither file
C15_StepOrder ==
    [][/\ posts' # posts
            => /\ ClassifiedNames = ConfiguredPipelines
               /\ script # "pipeline_health" => card # <<>>
               /\ ~WrittenThisRun
       /\ alert_file' # alert_file
            => /\ ClassifiedNames = ConfiguredPipelines
               /\ pc = "alert_file"
               /\ SLACK_WEBHOOK => Len(posts) = 1
       /\ success_file' # success_file
            => ClassifiedNames = ConfiguredPipelines
       /\ WrittenThisRun => posts' = posts
       /\ (\E r \in raised' : r.site = "health_query")
            => /\ posts' = <<>>
               /\ ~WrittenThisRun']_vars

C15_Witness ==
    /\ Exited
    /\ script = "pipeline_health"
    /\ Len(posts) = 1
    /\ posts[1].status_code = 200
    /\ Len(NewAlertEntries) = 1
    /\ ClassifiedNames = PIPELINE_NAMES


IsPrefix(s, t) == Len(s) <= Len(t) /\ SubSeq(t, 1, Len(s)) = s

\* C16 as stated: the alert file of the hourly monitor is append-only; a run
\* with at least one WARNING/CRITICAL pipeline appends exactly one entry, a
\* run with all pipelines OK or ending in a database error appends nothing
C16_AppendsWheneverIssueFound ==
    [][/\ IsPrefix(alert_file, alert_file')
       /\ (Exited' /\ script = "pipeline_health")
            => /\ SomeIssue' => Len(NewAlertEntries') = 1
               /\ (exit_code' = 2 \/ (AllOk' /\ ClassifiedNames' = PIPELINE_NAMES))
                    => NewAlertEntries' = <<>>]_vars

\* C16 amended: the alert file of the hourly monitor is append-only; a run
\* that ends with exit code 1 (every pipeline classified, at least one of
\* them WARNING/CRITICAL, no error) has appended exactly one entry, and
\* every other run - all pipelines OK, or ended by a database or unexpected
\* error, even after an issue was found - leaves the file unchanged
C16_AppendOnlyAlertFile ==
    [][/\ IsPrefix(alert_file, alert_file')
       /\ (Exited' /\ script = "pipeline_health")
            => /\ exit_code' = 1
                    => /\ Len(NewAlertEntries') = 1
                       /\ SomeIssue' /\ ClassifiedNames' = PIPELINE_NAMES
               /\ exit_code' # 1 => NewAlertEntries' = <<>>]_vars

C16_Witness ==
    /\ Exited
    /\ script = "pipeline_health"
    /\ exit_code = 1
    /\ Len(alert_file) = 2
    /\ alert_file[1].time = "t0"
    /\ alert_file[2].time = "t1"


\* every pipeline of the hourly run is classified OK and nothing was raised
\* up to and including the write of the marker
HealthyUpToMarker ==
    /\ ClassifiedNames = PIPELINE_NAMES
    /\ AllOk
    /\ \A r \in raised : r.site = "close"

SendFailureLogged ==
    \E i \in 1..Len(log) :
        /\ log[i].level = "ERROR"
        /\ log[i].msg \in {"Failed to send Slack alert",
                           "Failed to send to Google Chat",
                           "Error sending to Google Chat"}

\* C18: every webhook send that does not end in HTTP 200 (a non-200 response
\* as well as a raised exception) has produced a failure log entry
C18_FailedSendIsLogged == FailedPosts # {} => SendFailureLogged


\* C19: in the daily summary the trend of a pipeline with data is flat when
\* records_yesterday = 0 (whatever records_today), otherwise up when
\* records_today > records_yesterday, down when it is smaller and flat when
\* equal; a pipeline with no data reports the down trend with records_today
\* = records_yesterday = 0; and the status is the same for every other pair
\* of record counts, so the trend does not influence it
C19_DailyTrend ==
    (Classified /\ call.script = "daily_summary")
        => IF no_data(call.row)
           THEN /\ ret[1].trend = "down"
                /\ ret[1].records_today = 0
                /\ ret[1].records_yesterday = 0
           ELSE LET today == call.row.records_today
                    yesterday == call.row.records_yesterday
                IN  /\ yesterday = 0 => ret[1].trend = "flat"
                    /\ (yesterday # 0 /\ today > yesterday) => ret[1].trend = "up"
                    /\ (yesterday # 0 /\ today < yesterday) => ret[1].trend = "down"
                    /\ (yesterday # 0 /\ today = yesterday) => ret[1].trend = "flat"
                    /\ \A t \in RecordSamples, y \in YesterdaySamples :
                          ds_check_pipeline_health(call.pipeline_name, call.config,
                              DataRow(call.row.hours_stale, t, y)).status
                            = ret[1].status

C19_Witness ==
    /\ Classified
    /\ call.script = "daily_summary"
    /\ ~no_data(call.row)
    /\ call.row.records_yesterday = 0
    /\ call.row.records_today = 1000
    /\ ret[1].trend = "flat"
    /\ ret[1].status = "CRITICAL"


\* the operator query was issued in the run
OperatorQueried == \E i \in 1..Len(queried) : queried[i] = "operator_count"

\* C20: the check-in queries the operator count only for the morning period
\* and leaves it out of the card of the two shifts; it renders it as expected
\* when exactly 237, slightly off when >= 230 and not 237, critical when
\* < 230; and whatever the count (the 0 of a failed query included) the
\* overall status of the card, its OK/Warning/Critical counts and the exit
\* code are those of the pipeline results alone
C20_OperatorCountIsInformational ==
    (script = "checkin" /\ card # <<>>)
        => /\ OperatorQueried <=> period = "morning"
           /\ period # "morning" => /\ operator_count = <<>>
                                    /\ card[1].operator_text = "absent"
           /\ period = "morning"
                => /\ Len(operator_count) = 1
                   /\ card[1].operators = operator_count
                   /\ card[1].operator_text =
                        IF operator_count[1] = 237 THEN "expected"
                        ELSE IF operator_count[1] >= 230 THEN "slightly off"
                        ELSE "CRITICAL"
           /\ LET without == ci_create_google_chat_card(all_results, <<>>)
              IN  /\ card[1].overall_status = without.overall_status
                  /\ card[1].ok_count = without.ok_count
                  /\ card[1].warning_count = without.warning_count
                  /\ card[1].critical_count = without.critical_count
           /\ (Exited /\ ~ErrorInMain)
                => exit_code = IF HasStatus(all_results, "CRITICAL") THEN 1 ELSE 0

C20_Witness ==
    /\ Exited
    /\ script = "checkin"
    /\ period = "morning"
    /\ operator_count = <<0>>
    /\ \E r \in raised : r.site = "operator_query"
    /\ card # <<>>
    /\ card[1].operator_text = "CRITICAL"
    /\ card[1].overall_status = "OK"
    /\ exit_code = 0


C22_ConnectionClosedAtExit == (Exited /\ conn # "none") => conn = "closed"

====
